---------------------------- MODULE Spec2Model ----------------------------
(***************************************************************************)
(* A model of the messaging backend (src/main.py):                         *)
(*   - the MongoDB collections `messages` and `conversations`, written by   *)
(*     the HTTP handlers send_message and get_messages.  The handlers are   *)
(*     plain `def` functions, which FastAPI runs on a thread pool, so every *)
(*     store call is one atomic step and the steps of different requests    *)
(*     interleave;                                                          *)
(*   - the ConnectionManager (`manager.active_connections`) with the        *)
(*     coroutines that use it: websocket_endpoint, send_personal_message    *)
(*     and broadcast.  They run on one event loop, so a coroutine is atomic *)
(*     between two `await`s and interleaves with the others at each one.    *)
(***************************************************************************)
EXTENDS Naturals, Sequences, FiniteSets

(* ------------------------------ bounds --------------------------------- *)
\* HTTP requests of one run on a store that answers every call; each
\* request has a slot of its own
MaxHandlers == 3
\* HTTP requests of one run of the whole application
MaxAppHandlers == 2
\* websocket connections of one run of the whole application
MaxAppChannels == 1
\* websocket connections of one run of the registry.  A CPython dict that
\* starts empty takes five new keys before it rebuilds its entry table, so
\* up to five connections the table below is the one CPython keeps
MaxChannels == 3
\* calls of send_personal_message of one run
MaxPushes == 1
\* websocket connections of one run of a broadcast among peers that may
\* stop reading
MaxStallChannels == 2

\* the page of get_messages: .limit(100)
PageLimit == 100

(* ------------------------------ inputs --------------------------------- *)
Users == {"A", "B", "C"}
Contents == {"hi", "again"}
Payloads == {"x"}
Handlers == 1..MaxHandlers
AppHandlers == 1..MaxAppHandlers
Channels == 1..MaxChannels
AppChannels == 1..MaxAppChannels
Pushes == 1..MaxPushes
StallChannels == 1..MaxStallChannels

VARIABLES
    clock,          \* the readings of datetime.now() so far
    messages,       \* messages_collection, in insertion (natural) order
    conversations,  \* conversations_collection, in insertion (natural) order
    pc,             \* per request slot: the store call the handler is at
    req,            \* per request slot: the request (op, current user, other id, content)
    loc,            \* per request slot: the handler's locals
    sent,           \* per request slot: the response of send_message
    page,           \* per request slot: the response of get_messages
    active_connections, \* manager.active_connections: the dict's entry table
    ws,             \* per websocket: where websocket_endpoint is, and its user_id
    alive,          \* per websocket: the peer is still there
    delivered,      \* per websocket: the payloads send_text has delivered
    stalled,        \* the websockets whose peer has stopped reading
    push,           \* per call of send_personal_message: the coroutine's state
    bc              \* the call of broadcast: the coroutine's state

storeVars == <<messages, conversations>>
\* datetime.now(): every reading is later than the ones before it
now == clock + 1
handlerVars == <<clock, messages, conversations, pc, req, loc, sent, page>>
registryVars == <<active_connections, ws, alive, delivered, stalled, push, bc>>
vars == <<clock, messages, conversations, pc, req, loc, sent, page,
          active_connections, ws, alive, delivered, stalled, push, bc>>

(* --------------------------- the Python dict ---------------------------- *)
\* CPython keeps a dict's items in an entry table in insertion order; `del`
\* blanks the item's entry and the table keeps its length
Tombstone == [key |-> "", value |-> 0]

Live(d) == {i \in 1..Len(d) : d[i].value # 0}

Keys(d) == {d[i].key : i \in Live(d)}

Slot(d, k) == CHOOSE i \in Live(d) : d[i].key = k

\* d[k]
dictGet(d, k) == d[Slot(d, k)].value

\* an assignment that always adds an entry
dictSet_Append(d, k, v) == Append(d, [key |-> k, value |-> v])

\* d[k] = v
dictSet(d, k, v) ==
    IF k \in Keys(d) THEN [d EXCEPT ![Slot(d, k)].value = v]
    ELSE Append(d, [key |-> k, value |-> v])

\* del d[k]
dictDel(d, k) ==
    IF k \in Keys(d)
    THEN [conns |-> [d EXCEPT ![Slot(d, k)] = Tombstone], error |-> "none"]
    ELSE [conns |-> d, error |-> "KeyError"]

(* ------------------------- the store's queries -------------------------- *)
\* {"$or": [{participant1: a, participant2: b}, {participant1: b, participant2: a}]}
ConvFilter(c, a, b) ==
    \/ c.participant1 = a /\ c.participant2 = b
    \/ c.participant1 = b /\ c.participant2 = a

Min(S) == CHOOSE x \in S : \A y \in S : x <= y

\* find_one / update_one address the first matching document in natural
\* order; 0 stands for None
find_one(convs, a, b) ==
    LET hits == {i \in 1..Len(convs) : ConvFilter(convs[i], a, b)}
    IN  IF hits = {} THEN 0 ELSE Min(hits)

NoReq == [op |-> "none", user |-> "A", other |-> "A", content |-> "hi"]
\* created, receiver_chan and after are history: the conversation the send
\* inserted, and, when the request arrived, the receiver's websocket and the
\* requests that had ended
NoLoc == [timestamp |-> 0, message_id |-> 0, conversation |-> 0, created |-> 0,
          receiver_chan |-> 0, after |-> {}]
NoSent == [status |-> "none", message_id |-> 0,
           notification |-> [type |-> "none", message_id |-> 0, sender_id |-> "A",
                             content |-> "hi", timestamp |-> 0]]

NoWs == [pc |-> "init", user_id |-> "A"]
NoPush == [pc |-> "idle", user_id |-> "A", message |-> "x", chan |-> 0, outcome |-> "none"]
\* start and attempted are history: the identities registered when the pass
\* started, and those a delivery has been attempted to
NoBroadcast == [pc |-> "idle", message |-> "x", pos |-> 1, used |-> 0, len |-> 0,
                user_id |-> "A", chan |-> 0, disconnected |-> <<>>,
                start |-> {}, attempted |-> {}]

Init ==
    /\ clock = 0
    /\ messages = <<>>
    /\ conversations = <<>>
    /\ pc = [p \in Handlers |-> "idle"]
    /\ req = [p \in Handlers |-> NoReq]
    /\ loc = [p \in Handlers |-> NoLoc]
    /\ sent = [p \in Handlers |-> NoSent]
    /\ page = [p \in Handlers |-> <<>>]
    /\ active_connections = <<>>
    /\ ws = [c \in Channels |-> NoWs]
    /\ alive = [c \in Channels |-> FALSE]
    /\ delivered = [c \in Channels |-> {}]
    /\ stalled = {}
    /\ push = [q \in Pushes |-> NoPush]
    /\ bc = NoBroadcast

\* the messages collection after n requests POST /messages/send from B to
\* A.  Each reads the clock three times.  All but the last two were handled
\* one after the other; of the last two, the one that read its timestamp
\* first reached insert_one second
Backlog(n) ==
    [k \in 1..n |-> [sender_id |-> "B", receiver_id |-> "A", content |-> "hi",
                     timestamp |-> IF k = n - 1 THEN 3 * n - 4
                                   ELSE IF k = n THEN 3 * n - 5
                                   ELSE 3 * k - 2,
                     read |-> FALSE]]

\* a history just under, and just over, the page of get_messages
BacklogSizes == {PageLimit - 1, PageLimit + 1}

\* the application after those sends, with no request in progress
InitHistory ==
    \E n \in BacklogSizes :
        /\ clock = 3 * n
        /\ messages = Backlog(n)
        /\ conversations = <<[participant1 |-> "B", participant2 |-> "A",
                              last_message |-> "hi", last_message_time |-> 3 * n - 1,
                              unread_count |-> n]>>
        /\ pc = [p \in Handlers |-> "idle"]
        /\ req = [p \in Handlers |-> NoReq]
        /\ loc = [p \in Handlers |-> NoLoc]
        /\ sent = [p \in Handlers |-> NoSent]
        /\ page = [p \in Handlers |-> <<>>]
        /\ active_connections = <<>>
        /\ ws = [c \in Channels |-> NoWs]
        /\ alive = [c \in Channels |-> FALSE]
        /\ delivered = [c \in Channels |-> {}]
        /\ stalled = {}
        /\ push = [q \in Pushes |-> NoPush]
        /\ bc = NoBroadcast

\* the requests take the slots in the order they arrive
Free(p) == pc[p] = "idle" /\ \A q \in 1..(p - 1) : pc[q] # "idle"

(* ----------------------------- send_message ----------------------------- *)
\* POST /messages/send arrives: the Auth Gate has resolved current_user
SendRequest(p, u, r, c) ==
    /\ Free(p)
    /\ pc' = [pc EXCEPT ![p] = "insert_message"]
    /\ req' = [req EXCEPT ![p] = [op |-> "send", user |-> u, other |-> r, content |-> c]]
    /\ loc' = [loc EXCEPT ![p] = [NoLoc EXCEPT
                  !.timestamp = now,
                  !.after = {k \in Handlers : pc[k] \in {"done", "error"}},
                  !.receiver_chan = IF r \in Keys(active_connections)
                                    THEN dictGet(active_connections, r) ELSE 0]]
    /\ clock' = now
    /\ sent' = [sent EXCEPT ![p] = NoSent]
    /\ page' = [page EXCEPT ![p] = <<>>]
    /\ UNCHANGED <<storeVars, registryVars>>

NewMessage(p) ==
    [sender_id |-> req[p].user, receiver_id |-> req[p].other,
     content |-> req[p].content, timestamp |-> loc[p].timestamp, read |-> FALSE]

\* a send that goes on to the ledger without the insert_one
InsertMessage_Skipped(p) ==
    /\ pc[p] = "insert_message"
    /\ pc' = [pc EXCEPT ![p] = "find_conversation"]
    /\ UNCHANGED <<clock, storeVars, req, loc, sent, page, registryVars>>

\* messages_collection.insert_one(message_data)
InsertMessage(p) ==
    /\ pc[p] = "insert_message"
    /\ messages' = Append(messages, NewMessage(p))
    /\ loc' = [loc EXCEPT ![p].message_id = Len(messages) + 1]
    /\ pc' = [pc EXCEPT ![p] = "find_conversation"]
    /\ UNCHANGED <<clock, conversations, req, sent, page, registryVars>>

\* conversation = conversations_collection.find_one({...})
FindConversation(p) ==
    /\ pc[p] = "find_conversation"
    /\ loc' = [loc EXCEPT ![p].conversation =
                  find_one(conversations, req[p].user, req[p].other)]
    /\ pc' = [pc EXCEPT ![p] = "upsert"]
    /\ UNCHANGED <<clock, storeVars, req, sent, page, registryVars>>

\* update_one({"_id": ...}, {"$set": {...}, "$inc": {"unread_count": 1}})
UpdateConversation(convs, i, c, t) ==
    [convs EXCEPT ![i] = [@ EXCEPT !.last_message = c,
                                   !.last_message_time = t,
                                   !.unread_count = @ + 1]]

NewConversation(p, t) ==
    [participant1 |-> req[p].user, participant2 |-> req[p].other,
     last_message |-> req[p].content, last_message_time |-> t,
     unread_count |-> 1]

Notification(p, t) ==
    [type |-> "new_message", message_id |-> loc[p].message_id,
     sender_id |-> req[p].user, content |-> req[p].content, timestamp |-> t]

\* the upsert, then the response: nothing between them touches shared state
Upsert(p) ==
    /\ pc[p] = "upsert"
    /\ IF loc[p].conversation # 0
       THEN /\ conversations' = UpdateConversation(conversations,
                                    loc[p].conversation, req[p].content, now)
            /\ loc' = loc
       ELSE /\ conversations' = Append(conversations, NewConversation(p, now))
            /\ loc' = [loc EXCEPT ![p].created = Len(conversations) + 1]
    /\ sent' = [sent EXCEPT ![p] = [status |-> "message_sent",
                                    message_id |-> loc[p].message_id,
                                    notification |-> Notification(p, now + 1)]]
    /\ clock' = now + 1
    /\ pc' = [pc EXCEPT ![p] = "done"]
    /\ UNCHANGED <<messages, req, page, registryVars>>

(* ----------------------------- get_messages ----------------------------- *)
\* GET /messages/{other_user_id} arrives; find() only builds a lazy cursor
FetchRequest(p, u, o) ==
    /\ Free(p)
    /\ pc' = [pc EXCEPT ![p] = "mark_read"]
    /\ req' = [req EXCEPT ![p] = [op |-> "fetch", user |-> u, other |-> o, content |-> "hi"]]
    /\ loc' = [loc EXCEPT ![p] = [NoLoc EXCEPT
                  !.after = {k \in Handlers : pc[k] \in {"done", "error"}}]]
    /\ sent' = [sent EXCEPT ![p] = NoSent]
    /\ page' = [page EXCEPT ![p] = <<>>]
    /\ UNCHANGED <<clock, storeVars, registryVars>>

\* the filter without its sender_id clause
UnreadFilter_AnySender(m, user_id, other_user_id) ==
    m.receiver_id = user_id /\ m.read = FALSE

\* {"sender_id": other_user_id, "receiver_id": user_id, "read": False}
UnreadFilter(m, user_id, other_user_id) ==
    m.sender_id = other_user_id /\ m.receiver_id = user_id /\ m.read = FALSE

\* messages_collection.update_many(filter, {"$set": {"read": True}})
update_many(msgs, user_id, other_user_id) ==
    [i \in 1..Len(msgs) |->
        IF UnreadFilter(msgs[i], user_id, other_user_id)
        THEN [msgs[i] EXCEPT !.read = TRUE] ELSE msgs[i]]

MarkRead(p) ==
    /\ pc[p] = "mark_read"
    /\ messages' = update_many(messages, req[p].user, req[p].other)
    /\ pc' = [pc EXCEPT ![p] = "reset_unread"]
    /\ UNCHANGED <<clock, conversations, req, loc, sent, page, registryVars>>

\* the update with upsert=True
reset_unread_Upsert(convs, user_id, other_user_id) ==
    LET i == find_one(convs, user_id, other_user_id)
    IN  IF i = 0
        THEN Append(convs, [participant1 |-> user_id, participant2 |-> other_user_id,
                            last_message |-> "hi", last_message_time |-> 0,
                            unread_count |-> 0])
        ELSE [convs EXCEPT ![i].unread_count = 0]

\* conversations_collection.update_one({"$or": [...]}, {"$set": {"unread_count": 0}})
reset_unread(convs, user_id, other_user_id) ==
    LET i == find_one(convs, user_id, other_user_id)
    IN  IF i = 0 THEN convs ELSE [convs EXCEPT ![i].unread_count = 0]

ResetUnread(p) ==
    /\ pc[p] = "reset_unread"
    /\ conversations' = reset_unread(conversations, req[p].user, req[p].other)
    /\ pc' = [pc EXCEPT ![p] = "read_cursor"]
    /\ UNCHANGED <<clock, messages, req, loc, sent, page, registryVars>>

\* the filter without its second $or clause
HistoryFilter_OneWay(m, user_id, other_user_id) ==
    m.sender_id = user_id /\ m.receiver_id = other_user_id

\* the cursor's filter: both directions of the pair
HistoryFilter(m, user_id, other_user_id) ==
    \/ m.sender_id = user_id /\ m.receiver_id = other_user_id
    \/ m.sender_id = other_user_id /\ m.receiver_id = user_id

\* .sort("timestamp", 1): ascending, ties in natural order
SortIds(msgs, ids) ==
    LET rank == [i \in ids |->
                    1 + Cardinality({j \in ids :
                            \/ msgs[j].timestamp < msgs[i].timestamp
                            \/ msgs[j].timestamp = msgs[i].timestamp /\ j < i})]
    IN  [k \in 1..Cardinality(ids) |-> CHOOSE i \in ids : rank[i] = k]

\* a cursor without its limit
Limit_All(s, n) == s

\* .limit(100)
Limit(s, n) == IF Len(s) <= n THEN s ELSE SubSeq(s, 1, n)

find_messages(msgs, user_id, other_user_id) ==
    Limit(SortIds(msgs, {i \in 1..Len(msgs) :
                            HistoryFilter(msgs[i], user_id, other_user_id)}),
          PageLimit)

\* the list comprehension of the return statement drains the cursor
MessageOut(msgs, i) ==
    [id |-> i, sender_id |-> msgs[i].sender_id, receiver_id |-> msgs[i].receiver_id,
     content |-> msgs[i].content, timestamp |-> msgs[i].timestamp,
     read |-> msgs[i].read]

ReadCursor(p) ==
    /\ pc[p] = "read_cursor"
    /\ page' = [page EXCEPT ![p] =
                   LET ids == find_messages(messages, req[p].user, req[p].other)
                   IN  [k \in 1..Len(ids) |-> MessageOut(messages, ids[k])]]
    /\ pc' = [pc EXCEPT ![p] = "done"]
    /\ UNCHANGED <<clock, storeVars, req, loc, sent, registryVars>>

(* ------------------------- failures and responses ----------------------- *)
StoreSteps == {"insert_message", "find_conversation", "upsert",
               "mark_read", "reset_unread", "read_cursor"}

\* a store call raises (PyMongoError): neither handler catches it, so the
\* request ends with HTTP 500 and the call has had no effect
StoreError(p) ==
    /\ pc[p] \in StoreSteps
    /\ pc' = [pc EXCEPT ![p] = "error"]
    /\ UNCHANGED <<clock, storeVars, req, loc, sent, page, registryVars>>


(* --------------------------- ConnectionManager -------------------------- *)
\* active_connections[user_id] = websocket
connect(conns, websocket, user_id) == dictSet(conns, user_id, websocket)

\* disconnect without its membership test
disconnect_Unguarded(conns, user_id) == dictDel(conns, user_id)

\* if user_id in active_connections: del active_connections[user_id]
disconnect(conns, user_id) ==
    IF user_id \in Keys(conns) THEN dictDel(conns, user_id)
    ELSE [conns |-> conns, error |-> "none"]

(* --------------------------- websocket_endpoint ------------------------- *)
\* the connections take the websockets in the order they arrive
FreeChannel(c) == ws[c].pc = "init" /\ \A k \in 1..(c - 1) : ws[k].pc # "init"

\* a client opens /ws/{user_id}: manager.connect awaits websocket.accept()
WsOpen(c, u) ==
    /\ FreeChannel(c)
    /\ ws' = [ws EXCEPT ![c] = [pc |-> "accept", user_id |-> u]]
    /\ alive' = [alive EXCEPT ![c] = TRUE]
    /\ UNCHANGED <<handlerVars, active_connections, delivered, stalled, push, bc>>

\* accept() returns and connect registers the websocket; if the peer has
\* gone accept() raises and the endpoint ends before its try block
WsAccept(c) ==
    /\ ws[c].pc = "accept"
    /\ IF alive[c]
       THEN /\ active_connections' = connect(active_connections, c, ws[c].user_id)
            /\ ws' = [ws EXCEPT ![c].pc = "receive"]
       ELSE /\ active_connections' = active_connections
            /\ ws' = [ws EXCEPT ![c].pc = "aborted"]
    /\ UNCHANGED <<handlerVars, alive, delivered, stalled, push, bc>>

\* the client goes away: a send_text that was waiting for it now raises
PeerGone(c) ==
    /\ ws[c].pc \in {"accept", "receive"}
    /\ alive[c]
    /\ alive' = [alive EXCEPT ![c] = FALSE]
    /\ stalled' = stalled \ {c}
    /\ UNCHANGED <<handlerVars, active_connections, ws, delivered, push, bc>>

\* the client stays connected and stops reading: once the buffers are full
\* an awaited send_text on the websocket does not return (the awaits of the
\* ConnectionManager have no timeout)
PeerStalls(c) ==
    /\ ws[c].pc \in {"accept", "receive"}
    /\ alive[c]
    /\ c \notin stalled
    /\ stalled' = stalled \cup {c}
    /\ UNCHANGED <<handlerVars, active_connections, ws, alive, delivered, push, bc>>

\* receive_text() raises WebSocketDisconnect: manager.disconnect(user_id)
WsDisconnect(c) ==
    /\ ws[c].pc = "receive"
    /\ ~alive[c]
    /\ LET r == disconnect(active_connections, ws[c].user_id)
       IN  /\ active_connections' = r.conns
           /\ ws' = [ws EXCEPT ![c].pc = IF r.error = "none" THEN "closed" ELSE "crashed"]
    /\ UNCHANGED <<handlerVars, alive, delivered, stalled, push, bc>>

(* ------------------------- send_personal_message ------------------------ *)
FreePush(q) == push[q].pc = "idle" /\ \A k \in 1..(q - 1) : push[k].pc # "idle"

\* the call: with an entry for user_id, send_text on its websocket is
\* awaited; without one the call returns at once
PushStart(q, m, u) ==
    /\ FreePush(q)
    /\ push' = [push EXCEPT ![q] =
                   IF u \in Keys(active_connections)
                   THEN [pc |-> "send_text", user_id |-> u, message |-> m,
                         chan |-> dictGet(active_connections, u), outcome |-> "none"]
                   ELSE [pc |-> "done", user_id |-> u, message |-> m,
                         chan |-> 0, outcome |-> "dropped"]]
    /\ UNCHANGED <<handlerVars, active_connections, ws, alive, delivered, stalled, bc>>

\* send_personal_message with `except: pass`
PushSent_Swallow(q) ==
    /\ push[q].pc = "send_text"
    /\ push[q].chan \notin stalled
    /\ IF alive[push[q].chan]
       THEN /\ delivered' = [delivered EXCEPT ![push[q].chan] = @ \cup {push[q].message}]
            /\ push' = [push EXCEPT ![q].pc = "done", ![q].outcome = "sent"]
       ELSE /\ delivered' = delivered
            /\ push' = [push EXCEPT ![q].pc = "done", ![q].outcome = "failed"]
    /\ UNCHANGED <<handlerVars, active_connections, ws, alive, stalled, bc>>

\* send_text returns, or raises and the bare except runs disconnect(user_id)
PushSent(q) ==
    /\ push[q].pc = "send_text"
    /\ push[q].chan \notin stalled
    /\ IF alive[push[q].chan]
       THEN /\ delivered' = [delivered EXCEPT ![push[q].chan] = @ \cup {push[q].message}]
            /\ active_connections' = active_connections
            /\ push' = [push EXCEPT ![q].pc = "done", ![q].outcome = "sent"]
       ELSE LET r == disconnect(active_connections, push[q].user_id)
            IN  /\ delivered' = delivered
                /\ active_connections' = r.conns
                /\ push' = [push EXCEPT ![q].pc = "done",
                               ![q].outcome = IF r.error = "none" THEN "failed" ELSE "raised"]
    /\ UNCHANGED <<handlerVars, ws, alive, stalled>>
    /\ UNCHANGED bc

(* ------------------------------- broadcast ------------------------------ *)
\* for user_id in disconnected: self.disconnect(user_id)
RECURSIVE disconnect_all(_, _)
disconnect_all(conns, disconnected) ==
    IF disconnected = <<>> THEN [conns |-> conns, error |-> "none"]
    ELSE LET r == disconnect(conns, Head(disconnected))
         IN  IF r.error # "none" THEN r
             ELSE disconnect_all(r.conns, Tail(disconnected))

\* the entries the iterator of active_connections.items() has not passed
Ahead(conns, pos) == {i \in Live(conns) : i >= pos}

\* next() on the items iterator, and what follows it up to the next await:
\* RuntimeError when the dict has changed size, or holds more items than
\* were left to yield; at the end of the table the loop over `disconnected`;
\* otherwise send_text on the item's websocket
Advance(b, conns) ==
    IF b.used # Cardinality(Live(conns))
    THEN [bc |-> [b EXCEPT !.pc = "raised"], conns |-> conns]
    ELSE IF Ahead(conns, b.pos) = {}
    THEN LET r == disconnect_all(conns, b.disconnected)
         IN  [bc |-> [b EXCEPT !.pc = IF r.error = "none" THEN "done" ELSE "raised"],
              conns |-> r.conns]
    ELSE IF b.len = 0
    THEN [bc |-> [b EXCEPT !.pc = "raised"], conns |-> conns]
    ELSE LET i == Min(Ahead(conns, b.pos))
         IN  [bc |-> [b EXCEPT !.pc = "send_text", !.pos = i + 1, !.len = @ - 1,
                               !.user_id = conns[i].key, !.chan = conns[i].value,
                               !.attempted = @ \cup {conns[i].key}],
              conns |-> conns]

\* the call: disconnected = [], the iterator, and the first next()
BroadcastStart(m) ==
    /\ bc.pc = "idle"
    /\ LET n == Cardinality(Live(active_connections))
           r == Advance([NoBroadcast EXCEPT !.message = m, !.used = n, !.len = n,
                                            !.start = Keys(active_connections)],
                        active_connections)
       IN  /\ bc' = r.bc
           /\ active_connections' = r.conns
    /\ UNCHANGED <<handlerVars, ws, alive, delivered, stalled, push>>

\* send_text returns, or raises and user_id is appended to `disconnected`;
\* then the next next()
BroadcastSent ==
    /\ bc.pc = "send_text"
    /\ bc.chan \notin stalled
    /\ LET ok == alive[bc.chan]
           b == IF ok THEN bc
                ELSE [bc EXCEPT !.disconnected = Append(@, bc.user_id)]
           r == Advance(b, active_connections)
       IN  /\ delivered' = IF ok
                           THEN [delivered EXCEPT ![bc.chan] = @ \cup {bc.message}]
                           ELSE delivered
           /\ bc' = r.bc
           /\ active_connections' = r.conns
    /\ UNCHANGED <<handlerVars, ws, alive, stalled, push>>

(* ---------------------------- specifications ---------------------------- *)
\* three requests on a store that answers every call
NextStore ==
    \/ \E p \in Handlers, u \in Users, c \in Contents :
          \E r \in Users \ {u} : SendRequest(p, u, r, c)
    \/ \E p \in Handlers : InsertMessage(p)
    \/ \E p \in Handlers : FindConversation(p)
    \/ \E p \in Handlers : Upsert(p)
    \/ \E p \in Handlers, u \in Users : \E o \in Users \ {u} : FetchRequest(p, u, o)
    \/ \E p \in Handlers : MarkRead(p)
    \/ \E p \in Handlers : ResetUnread(p)
    \/ \E p \in Handlers : ReadCursor(p)

SpecStore == Init /\ [][NextStore]_vars

\* two requests on a store that answers every call and holds a long history
NextHistory ==
    \/ \E p \in AppHandlers, u \in Users, c \in Contents :
          \E r \in Users \ {u} : SendRequest(p, u, r, c)
    \/ \E p \in AppHandlers : InsertMessage(p)
    \/ \E p \in AppHandlers : FindConversation(p)
    \/ \E p \in AppHandlers : Upsert(p)
    \/ \E p \in AppHandlers, u \in Users : \E o \in Users \ {u} : FetchRequest(p, u, o)
    \/ \E p \in AppHandlers : MarkRead(p)
    \/ \E p \in AppHandlers : ResetUnread(p)
    \/ \E p \in AppHandlers : ReadCursor(p)

SpecHistory == InitHistory /\ [][NextHistory]_vars

\* the ConnectionManager under the coroutines that call it
NextRegistry ==
    \/ \E c \in Channels, u \in Users : WsOpen(c, u)
    \/ \E c \in Channels : WsAccept(c)
    \/ \E c \in Channels : PeerGone(c)
    \/ \E c \in Channels : WsDisconnect(c)
    \/ \E q \in Pushes, m \in Payloads, u \in Users : PushStart(q, m, u)
    \/ \E q \in Pushes : PushSent(q)
    \/ \E m \in Payloads : BroadcastStart(m)
    \/ BroadcastSent

SpecRegistry == Init /\ [][NextRegistry]_vars

\* a broadcast among peers that may stop reading.  The event loop runs every
\* coroutine that is ready, so a step of a coroutine that stays possible is
\* taken; what the peers do is up to them
NextStall ==
    \/ \E c \in StallChannels, u \in Users : WsOpen(c, u)
    \/ \E c \in StallChannels : WsAccept(c)
    \/ \E c \in StallChannels : PeerGone(c)
    \/ \E c \in StallChannels : PeerStalls(c)
    \/ \E c \in StallChannels : WsDisconnect(c)
    \/ \E m \in Payloads : BroadcastStart(m)
    \/ BroadcastSent

SpecStall ==
    /\ Init /\ [][NextStall]_vars
    /\ WF_vars(BroadcastSent)
    /\ WF_vars(\E c \in StallChannels : WsAccept(c))
    /\ WF_vars(\E c \in StallChannels : WsDisconnect(c))

\* the application as it runs: the two HTTP handlers and websocket_endpoint
\* (no route calls send_personal_message or broadcast)
Next ==
    \/ \E p \in AppHandlers, u \in Users, c \in Contents :
          \E r \in Users \ {u} : SendRequest(p, u, r, c)
    \/ \E p \in AppHandlers : InsertMessage(p)
    \/ \E p \in AppHandlers : FindConversation(p)
    \/ \E p \in AppHandlers : Upsert(p)
    \/ \E p \in AppHandlers, u \in Users : \E o \in Users \ {u} : FetchRequest(p, u, o)
    \/ \E p \in AppHandlers : MarkRead(p)
    \/ \E p \in AppHandlers : ResetUnread(p)
    \/ \E p \in AppHandlers : ReadCursor(p)
    \/ \E p \in AppHandlers : StoreError(p)
    \/ \E c \in AppChannels, u \in Users : WsOpen(c, u)
    \/ \E c \in AppChannels : WsAccept(c)
    \/ \E c \in AppChannels : PeerGone(c)
    \/ \E c \in AppChannels : WsDisconnect(c)

Spec == Init /\ [][Next]_vars

(* ------------------------------- C1 .. C3 ------------------------------- *)
\* the Conversation records of the unordered pair {a, b}
PairRecords(convs, a, b) == {i \in 1..Len(convs) : ConvFilter(convs[i], a, b)}

\* slot p holds a completed send from a to b
SendDone(p, a, b) ==
    /\ req[p].op = "send" /\ pc[p] = "done"
    /\ req[p].user = a /\ req[p].other = b

\* C1 as the spec states it: once a send a->b that created the pair's record
\* has completed, a send b->a that arrives later finds that record,
\* overwrites its last-message fields and adds 1 to its unread counter, and
\* the pair has one record.
C1_ReverseSendUpdatesSameRecord ==
    [][\A p \in Handlers, q \in Handlers :
          ( /\ SendDone(p, req[p].user, req[p].other)
            /\ loc[p].created # 0
            /\ req[q].op = "send"
            /\ req[q].user = req[p].other /\ req[q].other = req[p].user
            /\ p \in loc[q].after )
          => /\ (pc[q] = "find_conversation" /\ pc'[q] = "upsert")
                   => loc'[q].conversation = loc[p].created
             /\ (pc[q] = "upsert" /\ pc'[q] = "done")
                   => LET i == loc[p].created
                      IN  /\ conversations'[i].last_message = req[q].content
                          /\ conversations'[i].last_message_time > conversations[i].last_message_time
                          /\ conversations'[i].unread_count = conversations[i].unread_count + 1
                          /\ Cardinality(PairRecords(conversations', req[p].user, req[p].other)) = 1
      ]_vars

\* C2 as the spec states it: in every reachable state the conversations
\* collection holds at most one record per unordered pair.
C2_OneRecordPerPair ==
    \A a \in Users, b \in Users :
        Cardinality(PairRecords(conversations, a, b)) <= 1

\* the slots whose request is about the pair {a, b}
OnPair(a, b) ==
    {p \in Handlers : req[p].op # "none" /\ {req[p].user, req[p].other} = {a, b}}

\* C3 as the spec states it: when all that has happened on the pair {a, b}
\* is n >= 1 completed sends from b to a, the pair's record has unread
\* counter n; and when a has then fetched the history with b, it is 0.
C3_UnreadCountsSends ==
    \A a \in Users : \A b \in Users \ {a} :
        LET sends == {p \in Handlers : SendDone(p, b, a)}
            i == find_one(conversations, a, b)
        IN  /\ (sends # {} /\ OnPair(a, b) = sends)
                => i # 0 /\ conversations[i].unread_count = Cardinality(sends)
            /\ \A f \in Handlers :
                  ( /\ sends # {} /\ OnPair(a, b) = sends \cup {f}
                    /\ req[f].op = "fetch" /\ req[f].user = a
                    /\ sends \subseteq loc[f].after
                    /\ pc[f] \in {"read_cursor", "done"} )
                  => i # 0 /\ conversations[i].unread_count = 0

(* ------------------------------- C4, C5 --------------------------------- *)
\* the receiver of send p was registered with a websocket when the request
\* arrived, and is still registered with it and reachable
ReceiverLive(p) ==
    /\ loc[p].receiver_chan # 0
    /\ req[p].other \in Keys(active_connections)
    /\ dictGet(active_connections, req[p].other) = loc[p].receiver_chan
    /\ alive[loc[p].receiver_chan]

\* C4 as the spec states it: a send that has run while its receiver had a
\* live websocket has pushed its notification (message id, sender, content)
\* onto that websocket.
C4_LiveReceiverIsNotified ==
    \A p \in Handlers :
        (SendDone(p, req[p].user, req[p].other) /\ ReceiverLive(p))
        => sent[p].notification \in delivered[loc[p].receiver_chan]

\* the ids of a page
PageIds(pg) == {pg[k].id : k \in 1..Len(pg)}

\* C5: a step of a send whose receiver has no entry in the registry leaves
\* the registry and every websocket's deliveries as they were, and its last
\* step returns "message_sent" with the id of the persisted message; a
\* history fetch between the two users that arrives after the send has
\* completed returns that message (the history fitting the page).
C5_AbsentReceiverStillStored ==
    [][/\ \A p \in Handlers :
            ( /\ req[p].op = "send" /\ pc'[p] # pc[p]
              /\ req[p].other \notin Keys(active_connections) )
            => /\ active_connections' = active_connections
               /\ delivered' = delivered
               /\ (pc'[p] = "done")
                     => /\ sent'[p].status = "message_sent"
                        /\ sent'[p].message_id \in 1..Len(messages')
                        /\ messages'[sent'[p].message_id].sender_id = req[p].user
                        /\ messages'[sent'[p].message_id].receiver_id = req[p].other
                        /\ messages'[sent'[p].message_id].content = req[p].content
       /\ \A p \in Handlers, f \in Handlers :
            ( /\ SendDone(p, req[p].user, req[p].other)
              /\ loc[p].receiver_chan = 0
              /\ req[f].op = "fetch" /\ {req[f].user, req[f].other} = {req[p].user, req[p].other}
              /\ p \in loc[f].after
              /\ pc[f] = "read_cursor" /\ pc'[f] = "done"
              /\ Cardinality({i \in 1..Len(messages) :
                    HistoryFilter(messages[i], req[f].user, req[f].other)}) <= PageLimit )
            => sent[p].message_id \in PageIds(page'[f])
      ]_vars

\* a send to a user who has never opened a websocket has completed, and a
\* fetch that arrived afterwards has returned its message
C5_Witness ==
    \E p \in Handlers, f \in Handlers :
        /\ SendDone(p, req[p].user, req[p].other)
        /\ loc[p].receiver_chan = 0
        /\ \A c \in Channels : ws[c].pc # "init" => ws[c].user_id # req[p].other
        /\ req[f].op = "fetch" /\ pc[f] = "done" /\ p \in loc[f].after
        /\ req[f].user = req[p].other /\ req[f].other = req[p].user
        /\ sent[p].message_id \in PageIds(page[f])

(* --------------------------------- C10 ---------------------------------- *)
\* C10: no step removes a message or changes its sender, receiver, content
\* or timestamp; a message is inserted unread; a read flag never goes back
\* to false, and it turns true only in the update_many of a fetch made by
\* the message's receiver with the message's sender as the other party.
C10_MessagesImmutable ==
    [][/\ Len(messages') >= Len(messages)
       /\ \A i \in 1..Len(messages) :
            /\ messages'[i].sender_id = messages[i].sender_id
            /\ messages'[i].receiver_id = messages[i].receiver_id
            /\ messages'[i].content = messages[i].content
            /\ messages'[i].timestamp = messages[i].timestamp
            /\ messages[i].read => messages'[i].read
            /\ (~messages[i].read /\ messages'[i].read)
                  => \E p \in Handlers :
                        /\ req[p].op = "fetch"
                        /\ pc[p] = "mark_read" /\ pc'[p] = "reset_unread"
                        /\ req[p].user = messages[i].receiver_id
                        /\ req[p].other = messages[i].sender_id
       /\ \A i \in (Len(messages) + 1)..Len(messages') : ~messages'[i].read
      ]_vars

\* a fetch by a message's receiver has completed and the message is read
C10_Witness ==
    \E i \in 1..Len(messages), p \in Handlers :
        /\ messages[i].read
        /\ req[p].op = "fetch" /\ pc[p] = "done"
        /\ req[p].user = messages[i].receiver_id
        /\ req[p].other = messages[i].sender_id

(* ------------------------------- C6 .. C9 ------------------------------- *)
\* the websockets the registry holds
Values(d) == {d[i].value : i \in Live(d)}

\* websocket c has been registered and the registry no longer holds it
Old(c) == ws[c].pc \in {"receive", "closed", "crashed"} /\ c \notin Values(active_connections)

\* C6: the registry never holds two entries for one identity; a connect on
\* an identity that has an entry puts the new websocket in the place of the
\* old one; no step puts a websocket back that the registry has lost; and a
\* push that starts (send_personal_message, or a broadcast's next item) is
\* attempted on the websocket the registry holds for the identity.
C6_ReconnectReplaces ==
    [][/\ \A u \in Users :
            Cardinality({i \in Live(active_connections') :
                            active_connections'[i].key = u}) <= 1
       /\ \A c \in Channels :
            (ws[c].pc = "accept" /\ ws'[c].pc = "receive")
            => /\ dictGet(active_connections', ws[c].user_id) = c
               /\ \A k \in Channels \ {c} :
                     ws[k].user_id = ws[c].user_id => k \notin Values(active_connections')
       /\ \A c \in Channels : Old(c) => c \notin Values(active_connections')
       /\ \A q \in Pushes :
            (push[q].pc = "idle" /\ push'[q].pc = "send_text")
            => /\ ~Old(push'[q].chan)
               /\ push'[q].chan = dictGet(active_connections, push'[q].user_id)
       /\ (bc'.pc = "send_text" /\ bc' # bc)
            => /\ ~Old(bc'.chan)
               /\ bc'.chan = dictGet(active_connections, bc'.user_id)
      ]_vars

\* an identity has connected twice, the second websocket has taken the
\* place of the first, and a push to the identity has gone to the second
C6_Witness ==
    \E c \in Channels, k \in Channels, q \in Pushes :
        /\ c # k /\ ws[c].user_id = ws[k].user_id
        /\ ws[c].pc = "receive" /\ ws[k].pc = "receive"
        /\ Old(c)
        /\ dictGet(active_connections, ws[k].user_id) = k
        /\ push[q].outcome = "sent" /\ push[q].chan = k

\* C7: when the send_text of send_personal_message fails, the identity has
\* no entry afterwards, every other identity's entry is as it was, and the
\* call returns without raising.
C7_FailedPushEvicts ==
    [][\A q \in Pushes :
          (push[q].pc = "send_text" /\ push'[q].pc = "done" /\ ~alive[push[q].chan])
          => /\ push[q].user_id \notin Keys(active_connections')
             /\ \A u \in Users \ {push[q].user_id} :
                   /\ u \in Keys(active_connections') <=> u \in Keys(active_connections)
                   /\ u \in Keys(active_connections)
                        => dictGet(active_connections', u) = dictGet(active_connections, u)
             /\ push'[q].outcome = "failed"
      ]_vars

\* a push has failed while another identity was registered
C7_Witness ==
    \E q \in Pushes :
        /\ push[q].outcome = "failed"
        /\ Keys(active_connections) # {}

\* the identities a broadcast's send_text has failed for
Failed(b) == {b.disconnected[k] : k \in 1..Len(b.disconnected)}

\* C8 as the spec states it: a step of the pass that does not end it removes
\* no entry; when the pass ends, a delivery has been attempted to every
\* identity that was registered when it started, and the step that ends it
\* removes the identities whose delivery failed, and no others.
C8_BroadcastReachesAll ==
    [][(bc.pc = "send_text" /\ bc' # bc)
          => IF bc'.pc = "send_text"
             THEN active_connections' = active_connections
             ELSE /\ bc.start \subseteq bc'.attempted
                  /\ Keys(active_connections') = Keys(active_connections) \ Failed(bc')
      ]_vars

\* C9: in every registry the program reaches, for every identity,
\* disconnect does not raise, a second disconnect leaves what the first
\* left, and disconnect of an identity without an entry leaves the registry
\* as it is; no endpoint or push has ended with disconnect raising.
C9_DisconnectIdempotent ==
    /\ \A u \in Users :
          LET once == disconnect(active_connections, u)
              twice == disconnect(once.conns, u)
          IN  /\ once.error = "none" /\ twice.error = "none"
              /\ twice.conns = once.conns
              /\ u \notin Keys(once.conns)
              /\ u \notin Keys(active_connections) => once.conns = active_connections
    /\ \A c \in Channels : ws[c].pc # "crashed"
    /\ \A q \in Pushes : push[q].outcome # "raised"

\* disconnect has run twice for one identity: after a failed push on its
\* websocket, and again when the endpoint saw the websocket close
C9_Witness ==
    \E q \in Pushes :
        /\ push[q].outcome = "failed"
        /\ ws[push[q].chan].pc = "closed"
        /\ \A c \in Channels \ {push[q].chan} :
              ws[c].pc # "init" => ws[c].user_id # push[q].user_id

(* --------------------------------- C11 ---------------------------------- *)
\* C11 as the spec states it: in a history fetch by R with O, the
\* update_many sets the read flag of every message from O to R and changes
\* nothing else; the update_one leaves the pair {R, O} with unread counter 0
\* on its record and changes no other field and no record of another pair;
\* no other step of the fetch writes to the store.
C11_FetchEffects ==
    [][\A p \in Handlers :
          (req[p].op = "fetch" /\ pc'[p] # pc[p])
          => /\ (pc[p] = "mark_read" /\ pc'[p] = "reset_unread")
                   => /\ Len(messages') = Len(messages)
                      /\ \A i \in 1..Len(messages) :
                            messages'[i] =
                               IF /\ messages[i].sender_id = req[p].other
                                  /\ messages[i].receiver_id = req[p].user
                               THEN [messages[i] EXCEPT !.read = TRUE]
                               ELSE messages[i]
                      /\ conversations' = conversations
             /\ (pc[p] = "reset_unread" /\ pc'[p] = "read_cursor")
                   => /\ messages' = messages
                      /\ Len(conversations') = Len(conversations)
                      /\ \A i \in 1..Len(conversations) :
                            conversations'[i] =
                               IF ConvFilter(conversations[i], req[p].user, req[p].other)
                               THEN [conversations[i] EXCEPT !.unread_count = 0]
                               ELSE conversations[i]
             /\ (pc[p] = "read_cursor" /\ pc'[p] = "done")
                   => /\ messages' = messages
                      /\ conversations' = conversations
      ]_vars

(* --------------------------------- C12 ---------------------------------- *)
\* the messages between user_id and other_user_id, in either direction
Between(msgs, user_id, other_user_id) ==
    {i \in 1..Len(msgs) :
        {msgs[i].sender_id, msgs[i].receiver_id} = {user_id, other_user_id}}

\* C12: the page a history fetch by R with O returns holds only messages
\* between R and O, each once and as the store holds it when the cursor is
\* read; it is in ascending timestamp order; it holds all of them when they
\* are at most 100 and otherwise the 100 that come first in that order.
C12_PageIsPairSortedLimited ==
    [][\A p \in Handlers :
          (req[p].op = "fetch" /\ pc[p] = "read_cursor" /\ pc'[p] = "done")
          => LET pg == page'[p]
                 hits == Between(messages, req[p].user, req[p].other)
             IN  /\ \A k \in 1..Len(pg) :
                       /\ pg[k].id \in hits
                       /\ pg[k] = MessageOut(messages, pg[k].id)
                       /\ {pg[k].sender_id, pg[k].receiver_id} \subseteq
                              {req[p].user, req[p].other}
                 /\ \A k \in 1..Len(pg) : \A l \in (k + 1)..Len(pg) :
                       /\ pg[k].id # pg[l].id
                       /\ pg[k].timestamp <= pg[l].timestamp
                 /\ Len(pg) = IF Cardinality(hits) <= 100 THEN Cardinality(hits) ELSE 100
                 /\ \A i \in hits \ PageIds(pg) : \A k \in 1..Len(pg) :
                       pg[k].timestamp <= messages[i].timestamp
      ]_vars

\* a fetch has returned a full page of a history that is longer than the
\* page, and the message it has left out was inserted before one it returns
C12_Witness ==
    \E p \in Handlers :
        /\ req[p].op = "fetch" /\ pc[p] = "done"
        /\ Len(page[p]) = 100
        /\ \E i \in Between(messages, req[p].user, req[p].other) \ PageIds(page[p]) :
              \E k \in 1..Len(page[p]) : i < page[p][k].id

(* --------------------------------- C13 ---------------------------------- *)
\* C13: while the pair {R, O} has no Conversation record, no step of a
\* history fetch by R with O changes the conversations collection, and the
\* update_one that finds no record returns and the fetch goes on to its
\* return statement.
C13_FetchWithoutRecordIsNoOp ==
    [][\A p \in Handlers :
          ( /\ req[p].op = "fetch" /\ pc'[p] # pc[p]
            /\ PairRecords(conversations, req[p].user, req[p].other) = {} )
          => /\ conversations' = conversations
             /\ pc[p] = "reset_unread" => pc'[p] = "read_cursor"
             /\ pc[p] = "read_cursor" => pc'[p] = "done"
      ]_vars

\* a fetch on a pair without a record has completed, the pair still has no
\* record, and another pair has one
C13_Witness ==
    \E p \in Handlers :
        /\ req[p].op = "fetch" /\ pc[p] = "done"
        /\ PairRecords(conversations, req[p].user, req[p].other) = {}
        /\ conversations # <<>>

(* --------------------------------- C14 ---------------------------------- *)
\* C14 as the spec states it: once a send has persisted its message, the
\* step that ends the request, whether or not the write to conversations
\* has failed, answers "message_sent" with the id of the persisted message,
\* and the message stays in the store.
C14_FailedUpsertStillSucceeds ==
    [][\A p \in Handlers :
          ( /\ req[p].op = "send" /\ pc[p] = "upsert"
            /\ pc'[p] # pc[p] )
          => /\ sent'[p].status = "message_sent"
             /\ sent'[p].message_id = loc[p].message_id
             /\ loc[p].message_id \in 1..Len(messages')
             /\ messages'[loc[p].message_id] = messages[loc[p].message_id]
      ]_vars

(* --------------------------------- C15 ---------------------------------- *)
\* C15 as the spec states it: when everything that has happened on the pair
\* {a, b} is k >= 1 completed sends, in either direction and interleaved in
\* any way, the unread counter of the pair's record has grown by k since the
\* pair was last quiet (it is k when the pair had no record).
C15_NoLostIncrement ==
    \A a \in Users : \A b \in Users \ {a} :
        LET sends == {p \in Handlers : SendDone(p, a, b) \/ SendDone(p, b, a)}
            before == Cardinality({i \in 1..Len(messages) :
                          /\ {messages[i].sender_id, messages[i].receiver_id} = {a, b}
                          /\ \A p \in sends : loc[p].message_id # i})
            i == find_one(conversations, a, b)
        IN  (sends # {} /\ OnPair(a, b) = sends)
            => /\ i # 0
               /\ conversations[i].unread_count = before + Cardinality(sends)

(* --------------------------------- C16 ---------------------------------- *)
\* C16 as the spec states it: once a broadcast pass is under way, every
\* identity that was registered when it started and still is gets its
\* delivery attempted (or the pass ends with an exception), whichever peers
\* have stopped reading.
C16_StalledChannelDoesNotBlock ==
    \A u \in Users :
        (bc.pc = "send_text" /\ u \in bc.start)
        ~> \/ u \in bc.attempted
           \/ u \notin Keys(active_connections)
           \/ bc.pc = "raised"

(* --------------------------------- C17 ---------------------------------- *)
\* C17 as the spec states it: when the endpoint of a websocket sees it
\* close, or a push on a websocket fails, the registry afterwards does not
\* hold that websocket, and every entry that holds another websocket, one
\* that is still open, is as it was.
C17_OnlyOwnChannelEvicts ==
    [][/\ \A c \in Channels :
            (ws[c].pc = "receive" /\ ws'[c].pc # "receive")
            => /\ c \notin Values(active_connections')
               /\ \A i \in Live(active_connections) :
                     ( /\ active_connections[i].value # c
                       /\ alive[active_connections[i].value] )
                     => /\ i \in Live(active_connections')
                        /\ active_connections'[i] = active_connections[i]
       /\ \A q \in Pushes :
            (push[q].pc = "send_text" /\ push'[q].pc = "done" /\ ~alive[push[q].chan])
            => /\ push[q].chan \notin Values(active_connections')
               /\ \A i \in Live(active_connections) :
                     ( /\ active_connections[i].value # push[q].chan
                       /\ alive[active_connections[i].value] )
                     => /\ i \in Live(active_connections')
                        /\ active_connections'[i] = active_connections[i]
      ]_vars

(* --------------------------------- C18 ---------------------------------- *)
\* no request is in progress, and none has ended in an error
Quiescent == \A p \in Handlers : pc[p] \in {"idle", "done"}

\* the unread messages between a and b
Unread(msgs, a, b) == {i \in Between(msgs, a, b) : ~msgs[i].read}

\* the message between a and b that was persisted last
Latest(msgs, a, b) == CHOOSE i \in Between(msgs, a, b) :
                          \A j \in Between(msgs, a, b) : j <= i

\* C18 as the spec states it: when no request is in progress, every
\* Conversation record that is the only one of its pair has as unread
\* counter the number of unread messages between its two participants, and
\* as last message the content of the message between them that was
\* persisted last.
C18_AggregateMatchesHistory ==
    Quiescent
    => \A i \in 1..Len(conversations) :
          LET a == conversations[i].participant1
              b == conversations[i].participant2
          IN  PairRecords(conversations, a, b) = {i}
              =>
              /\ conversations[i].unread_count = Cardinality(Unread(messages, a, b))
              /\ Between(messages, a, b) # {}
              /\ conversations[i].last_message = messages[Latest(messages, a, b)].content

(* --------------------------------- C19 ---------------------------------- *)
\* C19 as the spec states it: when a send on the pair {a, b} has persisted
\* its message and then failed before its write to conversations, and the
\* only other request on the pair is a send that arrived afterwards and has
\* completed, the pair's record has the later send's content as last
\* message and counts every unread message of the pair.
C19_NextSendRepairs ==
    \A p \in Handlers, q \in Handlers :
        ( /\ req[p].op = "send" /\ pc[p] = "error" /\ loc[p].message_id # 0
          /\ SendDone(q, req[q].user, req[q].other)
          /\ {req[q].user, req[q].other} = {req[p].user, req[p].other}
          /\ p \in loc[q].after
          /\ OnPair(req[p].user, req[p].other) = {p, q} )
        => LET i == find_one(conversations, req[p].user, req[p].other)
           IN  /\ i # 0
               /\ conversations[i].last_message = req[q].content
               /\ conversations[i].unread_count =
                     Cardinality(Unread(messages, req[p].user, req[p].other))

(* --------------------------------- C20 ---------------------------------- *)
\* C20: in every reachable state each Conversation record has at least one
\* persisted message between its two participants and an unread counter
\* that is a natural number; and a send that has reached the ledger (its
\* find_one, its write, its response) has its own message in the store.
C20_RecordBackedByMessage ==
    /\ \A i \in 1..Len(conversations) :
          /\ Between(messages, conversations[i].participant1,
                               conversations[i].participant2) # {}
          /\ conversations[i].unread_count \in Nat
    /\ \A p \in Handlers :
          (req[p].op = "send" /\ pc[p] \in {"find_conversation", "upsert", "done"})
          => /\ loc[p].message_id \in Between(messages, req[p].user, req[p].other)
             /\ messages[loc[p].message_id].sender_id = req[p].user
             /\ messages[loc[p].message_id].content = req[p].content
    /\ \A p \in Handlers :
          loc[p].created # 0
          => /\ loc[p].created \in 1..Len(conversations)
             /\ loc[p].message_id # 0

\* a pair has a record while a send on the pair is between its insert_one
\* and its write to conversations and a fetch on the pair is under way
C20_Witness ==
    \E i \in 1..Len(conversations), p \in Handlers, f \in Handlers :
        /\ req[p].op = "send" /\ pc[p] = "upsert"
        /\ ConvFilter(conversations[i], req[p].user, req[p].other)
        /\ req[f].op = "fetch" /\ pc[f] \in {"mark_read", "reset_unread"}
        /\ ConvFilter(conversations[i], req[f].user, req[f].other)

=============================================================================
